---- MODULE Spec2Model ----
(***************************************************************************)
(* A model of the NeuroGenX chat backend (src/render-backend/server.js):   *)
(* the retry wrapper callApiWithRetry, the bot responder getBotResponse,   *)
(* the presence registry connectedUsers and the HTTP handlers.             *)
(*                                                                         *)
(* Three specifications share the variables:                               *)
(*   SpecRetry     one invocation of callApiWithRetry / getBotResponse     *)
(*   SpecPresence  the socket.io connection handler                        *)
(*   SpecApi       the register, login, submit and listing handlers        *)
(***************************************************************************)
EXTENDS Integers, Sequences, FiniteSets, TLC

(***************************************************************************)
(* Bounds of the model.                                                    *)
(***************************************************************************)
\* largest attempt budget a direct caller of callApiWithRetry passes
MaxRetries == 4
\* number of realtime connections ever opened
MaxSockets == 2
\* number of join events handled
MaxJoins == 3
\* number of HTTP requests received
MaxReqs == 3
\* number of HTTP requests received while connections come and go
MaxChatReqs == 2
\* number of times the clock advances
MaxTicks == 1

(***************************************************************************)
(* Program constants.                                                      *)
(***************************************************************************)
\* callApiWithRetry(url, options, retries = 5, initialDelay = 1000)
DefaultRetries == 5
DefaultInitialDelay == 1000
\* the static apology string getBotResponse returns from its catch block
Apology == "Sorry, I am having trouble processing that request right now. I will let you know once I'm up and running again."
\* throw new Error('All retry attempts failed.')
AllFailed == "All retry attempts failed."
\* the error a rejected fetch() carries
NetworkError == "fetch failed"

(***************************************************************************)
(* JavaScript values of a parsed JSON body, tagged by their type.          *)
(***************************************************************************)
Undefined == [t |-> "undefined"]
Str(s) == [t |-> "string", v |-> s]
Obj(r) == [t |-> "object", v |-> r]
Arr(q) == [t |-> "array", v |-> q]

\* x?.name
OptField(x, name) ==
    IF x.t = "object"
    THEN IF name \in DOMAIN x.v THEN x.v[name] ELSE Undefined
    ELSE Undefined

\* x?.[0]
OptFirst(x) ==
    IF x.t = "array"
    THEN IF Len(x.v) > 0 THEN x.v[1] ELSE Undefined
    ELSE Undefined

\* !x for the values a JSON text field can hold
Falsy(x) == x.t = "undefined" \/ (x.t = "string" /\ x.v = "")

\* a generateContent reply whose candidates[0].content.parts[0].text is s
BodyWithText(s) ==
    Obj([candidates |-> Arr(<<Obj([content |->
         Obj([parts |-> Arr(<<Obj([text |-> Str(s)])>>)])])>>)])

\* replies in which the text field is absent at one level or another
BodyNoCandidates == Obj([promptFeedback |-> Str("blocked")])
BodyEmptyCandidates == Obj([candidates |-> Arr(<<>>)])
BodyNoContent == Obj([candidates |-> Arr(<<Obj([finishReason |-> Str("SAFETY")])>>)])
BodyEmptyParts ==
    Obj([candidates |-> Arr(<<Obj([content |-> Obj([parts |-> Arr(<<>>)])])>>)])
BodyNoText ==
    Obj([candidates |-> Arr(<<Obj([content |->
         Obj([parts |-> Arr(<<Obj([inlineData |-> Str("x")])>>)])])>>)])
\* a body response.json() rejects
BodyNotJson == [t |-> "notjson"]

Texts == {"hello"}
AbsentBodies ==
    {BodyNoCandidates, BodyEmptyCandidates, BodyNoContent, BodyEmptyParts, BodyNoText}
OkBodies ==
    {BodyWithText(s) : s \in Texts \cup {""}} \cup AbsentBodies \cup {BodyNotJson}

OkStatuses == {200}
ClientErrorStatuses == {404}
RetryableStatuses == {429, 500, 503}

\* what one fetch() can settle with
Responses ==
    {[status |-> s, body |-> b] : s \in OkStatuses, b \in OkBodies}
      \cup {[status |-> s, body |-> BodyNotJson] :
              s \in ClientErrorStatuses \cup RetryableStatuses}

Prompts == {"", "hi"}

VARIABLES
    \* ---- callApiWithRetry / getBotResponse ----
    caller,        \* "direct": callApiWithRetry called on its own; "bot": by getBotResponse
    prompt,        \* getBotResponse's argument
    retries,       \* callApiWithRetry's parameters
    initialDelay,
    i,             \* the loop counter
    pc,            \* "call" | "sleep" | "returned" | "thrown"
    fetched,       \* what each fetch() so far settled with, in call order
    delays,        \* the delay of each setTimeout so far, in order
    wrapperOut,    \* how callApiWithRetry completed
    botOut         \* how getBotResponse completed

retryVars ==
    <<caller, prompt, retries, initialDelay, i, pc, fetched, delays, wrapperOut, botOut>>

VARIABLES
    \* ---- socket.io ----
    sockets,         \* socket id -> "new" (not yet connected) | "live" | "gone"
    connectedUsers,  \* the Map, as its entries <<socket id, username>> in insertion order
    emitted,         \* every io.emit so far: event, payload and the sockets it went to
                     \* (and, as history, the request whose handler emitted it)
    joinedAs,        \* history: socket id -> the name of its latest join, or NoName
    joins            \* history: number of join events handled

registryVars == <<sockets, connectedUsers, joinedAs, joins>>
presenceVars == <<registryVars, emitted>>

VARIABLES
    \* ---- the HTTP API and its store ----
    users,      \* the User collection, in insertion order
    messages,   \* the Message collection, in insertion order (with, as history,
                \* the request whose handler saved each document)
    reqs,       \* request id -> the request, its handler's position and its response
    now,        \* the clock, in seconds
    ticks       \* history: number of clock advances

apiVars == <<users, messages, reqs, now, ticks>>

vars == <<retryVars, presenceVars, apiVars>>

Pending == [kind |-> "pending"]

(***************************************************************************)
(* callApiWithRetry                                                        *)
(***************************************************************************)
RECURSIVE Pow2(_)
\* Math.pow(2, n)
Pow2(n) == IF n = 0 THEN 1 ELSE 2 * Pow2(n - 1)

\* response.ok
IsOk(status) == status >= 200 /\ status <= 299

\* variant: every status from 400 up is retried
IsRetryableStatusAny4xx(status) == status >= 400
\* response.status === 429 || response.status >= 500
IsRetryableStatus(status) == status = 429 \/ status >= 500

\* variant: a backoff that grows linearly
BackoffDelayLinear(d, n) == d * (n + 1)
\* const delay = initialDelay * Math.pow(2, i)
BackoffDelay(d, n) == d * Pow2(n)

\* variant: the last attempt is followed by a wait as well
RetryAfterNetworkErrorOffByOne(n, r) == n < r
\* if (i < retries - 1) in the catch block
RetryAfterNetworkError(n, r) == n < r - 1

\* fetch resolves with an ok response: return response
FetchOk ==
    /\ pc = "call" /\ i < retries
    /\ \E resp \in Responses :
         /\ IsOk(resp.status)
         /\ fetched' = Append(fetched, [kind |-> "response", response |-> resp])
         /\ wrapperOut' = [kind |-> "return", response |-> resp]
    /\ pc' = "returned"
    /\ UNCHANGED <<caller, prompt, retries, initialDelay, i, delays, botOut,
                   presenceVars, apiVars>>

\* fetch resolves with a non-ok response
FetchNotOk ==
    /\ pc = "call" /\ i < retries
    /\ \E resp \in Responses :
         /\ ~IsOk(resp.status)
         /\ fetched' = Append(fetched, [kind |-> "response", response |-> resp])
         /\ IF IsRetryableStatus(resp.status)
            THEN /\ delays' = Append(delays, BackoffDelay(initialDelay, i))
                 /\ pc' = "sleep"
                 /\ UNCHANGED wrapperOut
            ELSE /\ wrapperOut' = [kind |-> "return", response |-> resp]
                 /\ pc' = "returned"
                 /\ UNCHANGED delays
    /\ UNCHANGED <<caller, prompt, retries, initialDelay, i, botOut,
                   presenceVars, apiVars>>

\* fetch rejects with a network error
FetchNetworkError ==
    /\ pc = "call" /\ i < retries
    /\ fetched' = Append(fetched, [kind |-> "error", error |-> NetworkError])
    /\ IF RetryAfterNetworkError(i, retries)
       THEN /\ delays' = Append(delays, BackoffDelay(initialDelay, i))
            /\ pc' = "sleep"
            /\ UNCHANGED wrapperOut
       ELSE /\ wrapperOut' = [kind |-> "throw", error |-> NetworkError]
            /\ pc' = "thrown"
            /\ UNCHANGED delays
    /\ UNCHANGED <<caller, prompt, retries, initialDelay, i, botOut,
                   presenceVars, apiVars>>

\* variant: the loop goes round without counting the attempt
TimerFiresNoCount ==
    /\ pc = "sleep"
    /\ pc' = "call"
    /\ UNCHANGED <<caller, prompt, retries, initialDelay, i, fetched, delays,
                   wrapperOut, botOut, presenceVars, apiVars>>
\* the setTimeout promise resolves: i++ and the loop goes round
TimerFires ==
    /\ pc = "sleep"
    /\ i' = i + 1
    /\ pc' = "call"
    /\ UNCHANGED <<caller, prompt, retries, initialDelay, fetched, delays,
                   wrapperOut, botOut, presenceVars, apiVars>>

\* the loop condition i < retries fails: throw new Error('All retry attempts failed.')
Exhausted ==
    /\ pc = "call" /\ ~(i < retries)
    /\ wrapperOut' = [kind |-> "throw", error |-> AllFailed]
    /\ pc' = "thrown"
    /\ UNCHANGED <<caller, prompt, retries, initialDelay, i, fetched, delays,
                   botOut, presenceVars, apiVars>>

(***************************************************************************)
(* getBotResponse                                                          *)
(***************************************************************************)
\* variant: the text is looked up directly under content
ExtractTextNoParts(result) ==
    OptField(OptField(OptFirst(OptField(result, "candidates")), "content"), "text")
\* result?.candidates?.[0]?.content?.parts?.[0]?.text
ExtractText(result) ==
    OptField(OptFirst(OptField(OptField(OptFirst(OptField(result,
        "candidates")), "content"), "parts")), "text")

\* the body of the try block, given how callApiWithRetry completed
BotTry(w) ==
    IF w.kind = "throw"
    THEN [kind |-> "throw", error |-> w.error]
    ELSE IF ~IsOk(w.response.status)
    THEN [kind |-> "throw", error |-> "API call failed with status"]
    ELSE IF w.response.body = BodyNotJson
    THEN [kind |-> "throw", error |-> "Unexpected token in JSON"]
    ELSE LET text == ExtractText(w.response.body)
         IN  IF Falsy(text)
             THEN [kind |-> "throw", error |-> "No text found in API response."]
             ELSE [kind |-> "return", value |-> text]

\* variant: no catch block
GetBotResponseNoCatch(w) == BotTry(w)
\* the try block followed by catch (err) { return <apology> }
GetBotResponse(w) ==
    LET r == BotTry(w)
    IN  IF r.kind = "throw" THEN [kind |-> "return", value |-> Str(Apology)] ELSE r

\* getBotResponse resumes once its await callApiWithRetry(...) settles
BotFinish ==
    /\ caller = "bot"
    /\ pc \in {"returned", "thrown"}
    /\ botOut = Pending
    /\ botOut' = GetBotResponse(wrapperOut)
    /\ UNCHANGED <<caller, prompt, retries, initialDelay, i, pc, fetched,
                   delays, wrapperOut, presenceVars, apiVars>>

NextRetry ==
    \/ FetchOk
    \/ FetchNotOk
    \/ FetchNetworkError
    \/ TimerFires
    \/ Exhausted
    \/ BotFinish


(***************************************************************************)
(* socket.io: connectedUsers and broadcastUserList                         *)
(***************************************************************************)
Sockets == 1..MaxSockets
Names == {"A", "B"}
NoName == "(none)"

\* the positions of key k in the entries of Map m (none or one)
MapIndex(m, k) == {n \in 1..Len(m) : m[n][1] = k}

\* variant: every set appends an entry
MapSetAppend(m, k, v) == Append(m, <<k, v>>)
\* Map.prototype.set: replace the value in place, or append a new entry
MapSet(m, k, v) ==
    IF MapIndex(m, k) = {}
    THEN Append(m, <<k, v>>)
    ELSE [n \in 1..Len(m) |-> IF m[n][1] = k THEN <<k, v>> ELSE m[n]]

RECURSIVE MapDelete(_, _)
\* variant: delete removes nothing
MapDeleteNothing(m, k) == m
\* Map.prototype.delete
MapDelete(m, k) ==
    IF m = <<>> THEN <<>>
    ELSE IF Head(m)[1] = k THEN MapDelete(Tail(m), k)
    ELSE <<Head(m)>> \o MapDelete(Tail(m), k)

\* Array.from(m.values())
MapValues(m) == [n \in 1..Len(m) |-> m[n][2]]

\* the sockets an io.emit reaches
LiveSockets(ss) == {x \in Sockets : ss[x] = "live"}

\* variant: the list is taken from the registry as it was before the event
BroadcastUserListStale(m, ss) ==
    [event |-> "online_users", payload |-> MapValues(connectedUsers),
     to |-> LiveSockets(ss)]
\* broadcastUserList(), with the registry and the connections as they are
\* when it is called
BroadcastUserList(m, ss) ==
    [event |-> "online_users", payload |-> MapValues(m), to |-> LiveSockets(ss)]

\* variant: a new connection is sent the stored messages
ConnectWithBackfill(x) ==
    /\ sockets[x] = "new"
    /\ \A y \in Sockets : y < x => sockets[y] # "new"
    /\ sockets' = [sockets EXCEPT ![x] = "live"]
    /\ emitted' = emitted \o
         [n \in 1..Len(messages) |->
            [event |-> "new_message",
             payload |-> [name |-> messages[n].name, message |-> messages[n].message,
                          timestamp |-> messages[n].date],
             to |-> {x}, by |-> messages[n].by]]
    /\ UNCHANGED <<connectedUsers, joinedAs, joins, retryVars, apiVars>>
\* io.on('connection'): a client connects and its handlers are registered
Connect(x) ==
    /\ sockets[x] = "new"
    /\ \A y \in Sockets : y < x => sockets[y] # "new"
    /\ sockets' = [sockets EXCEPT ![x] = "live"]
    /\ UNCHANGED <<connectedUsers, emitted, joinedAs, joins,
                   retryVars, apiVars>>

\* socket.on('join', (username) => ...)
Join(x, username) ==
    /\ sockets[x] = "live"
    /\ joins < MaxJoins
    /\ connectedUsers' = MapSet(connectedUsers, x, username)
    /\ emitted' = Append(emitted, BroadcastUserList(connectedUsers', sockets))
    /\ joinedAs' = [joinedAs EXCEPT ![x] = username]
    /\ joins' = joins + 1
    /\ UNCHANGED <<sockets, retryVars, apiVars>>

\* variant: the registry is keyed by name, so a disconnect removes the name
DisconnectByName(x) ==
    /\ sockets[x] = "live"
    /\ sockets' = [sockets EXCEPT ![x] = "gone"]
    /\ connectedUsers' =
         SelectSeq(connectedUsers, LAMBDA e : e[2] # joinedAs[x])
    /\ emitted' = Append(emitted, BroadcastUserList(connectedUsers', sockets'))
    /\ UNCHANGED <<joinedAs, joins, retryVars, apiVars>>
\* socket.on('disconnect', () => ...): the socket is closed by then
Disconnect(x) ==
    /\ sockets[x] = "live"
    /\ sockets' = [sockets EXCEPT ![x] = "gone"]
    /\ connectedUsers' = MapDelete(connectedUsers, x)
    /\ emitted' = Append(emitted, BroadcastUserList(connectedUsers', sockets'))
    /\ UNCHANGED <<joinedAs, joins, retryVars, apiVars>>

NextPresence ==
    \/ \E x \in Sockets : Connect(x)
    \/ \E x \in Sockets, username \in Names : Join(x, username)
    \/ \E x \in Sockets : Disconnect(x)

(***************************************************************************)
(* The HTTP API: the store, bcrypt and jsonwebtoken                        *)
(***************************************************************************)
Reqs == 1..MaxReqs
Usernames == {"alice", "bob"}
Passwords == {"secret", "wrong"}
\* jwt.sign(..., { expiresIn: '1h' }), in seconds
ExpiresIn == 3600
TickSeconds == ExpiresIn
\* userId: null
Null == 0
\* the salt bcrypt.genSalt(10) draws
Salts == {"salt1"}

\* a JavaScript string, as its characters
Chars(q) == [t |-> "string", v |-> q]
\* a field the request body does not have
NoField == [t |-> "undefined"]
\* variant: only a missing field is rejected
NotOnlyUndefined(x) == x.t = "undefined"
\* !x for a string-valued body field
Not(x) == x.t = "undefined" \/ (x.t = "string" /\ x.v = <<>>)

\* !username, !password: a missing field and "" alike
NotStr(x) == x = ""

\* bcrypt.hash(password, salt)
BcryptHash(password, salt) == [salt |-> salt, digest |-> <<salt, password>>]
\* bcrypt.compare(password, hash)
BcryptCompare(password, hash) == hash = BcryptHash(password, hash.salt)

\* variant: the lookup never finds a user
FindOneNothing(us, username) == 0
\* User.findOne({ username }): the position of the first match, 0 for null
FindOne(us, username) ==
    IF \E n \in 1..Len(us) : us[n].username = username
    THEN CHOOSE n \in 1..Len(us) :
           /\ us[n].username = username
           /\ \A m \in 1..(n - 1) : us[m].username # username
    ELSE 0

\* variant: no unique index
DuplicateKeyNever(us, username) == FALSE
\* the unique index on username rejects a second document with the name
DuplicateKey(us, username) == \E n \in 1..Len(us) : us[n].username = username

\* variant: expiresIn: '2h'
JwtSignTwoHours(userId, username, t) ==
    [t |-> "jwt", userId |-> userId, username |-> username,
     iat |-> t, exp |-> t + 2 * ExpiresIn, sig |-> "JWT_SECRET"]
\* jwt.sign({ userId, username }, JWT_SECRET, { expiresIn: '1h' }) at time t
JwtSign(userId, username, t) ==
    [t |-> "jwt", userId |-> userId, username |-> username,
     iat |-> t, exp |-> t + ExpiresIn, sig |-> "JWT_SECRET"]

\* variant: the expiry is not looked at
JwtVerifyIgnoringExpiry(token, t) == token.t = "jwt" /\ token.sig = "JWT_SECRET"
\* jwt.verify(token, JWT_SECRET) at time t does not throw
JwtVerify(token, t) ==
    /\ token.t = "jwt"
    /\ token.sig = "JWT_SECRET"
    /\ t < token.exp

\* a token signed with another key
ForgedToken ==
    [t |-> "jwt", userId |-> 1, username |-> "alice",
     iat |-> 0, exp |-> (MaxTicks + 1) * TickSeconds + ExpiresIn, sig |-> "other key"]

\* the Authorization header: absent, or 'Bearer ' followed by credentials
NoHeader == [present |-> FALSE]
Bearer(tok) == [present |-> TRUE, scheme |-> "Bearer ", credentials |-> tok]

\* req.header('Authorization')?.replace('Bearer ', '')
AuthToken(h) == IF h.present THEN h.credentials ELSE [t |-> "undefined"]
\* !token
NoToken(tok) == tok.t = "undefined" \/ (tok.t = "text" /\ tok.v = "")

Resp(status, body) == [status |-> status, body |-> body]
NoResp == Resp(0, [none |-> TRUE])

\* the responses of auth
AuthMissing == Resp(401, [error |-> "Authentication token missing."])
AuthInvalid == Resp(401, [error |-> "Invalid token."])

\* variant: the token is decoded without being verified
AuthDecodeOnly(h, t) ==
    IF NoToken(AuthToken(h)) THEN "missing" ELSE "next"
\* what auth does with a request at time t: "next" lets the handler run
Auth(h, t) ==
    IF NoToken(AuthToken(h)) THEN "missing"
    ELSE IF JwtVerify(AuthToken(h), t) THEN "next"
    ELSE "invalid"

\* the responses of login
LoginRequired == Resp(400, [error |-> "Username and password are required."])
\* variant: an unknown username gets an answer of its own
LoginNoUserRevealing == Resp(404, [error |-> "User not found."])
LoginNoUser == Resp(400, [error |-> "Invalid username or password."])
LoginMismatch == Resp(400, [error |-> "Invalid username or password."])
LoginFailed == Resp(500, [error |-> "An error occurred during login."])

\* the tokens the clients hold: those of the login responses so far
IssuedTokens ==
    {reqs[r].resp.body.token :
       r \in {q \in Reqs : reqs[q].kind = "login" /\ reqs[q].resp.status = 200}}

Idle == [kind |-> "none", pc |-> "none", resp |-> NoResp]

\* variant: a request is taken up only when the earlier ones are answered
ArrivesSerial(r) ==
    /\ reqs[r].kind = "none"
    /\ \A q \in Reqs : q < r => reqs[q].pc = "done"
\* requests are numbered in the order they arrive
Arrives(r) ==
    /\ reqs[r].kind = "none"
    /\ \A q \in Reqs : q < r => reqs[q].kind # "none"

\* time passes
Tick ==
    /\ ticks < MaxTicks
    /\ ticks' = ticks + 1
    /\ now' = now + TickSeconds
    /\ UNCHANGED <<users, messages, reqs, emitted, retryVars, registryVars>>

(***************************************************************************)
(* POST /api/register                                                      *)
(***************************************************************************)
\* the handler up to await User.findOne
RegisterArrive(r, username, password) ==
    /\ Arrives(r)
    /\ LET req == [kind |-> "register", username |-> username,
                   password |-> password, failed |-> FALSE]
       IN  reqs' = [reqs EXCEPT ![r] =
             IF NotStr(username) \/ NotStr(password)
             THEN req @@ [pc |-> "done", resp |->
                    Resp(400, [error |-> "Username and password are required."])]
             ELSE req @@ [pc |-> "findOne", resp |-> NoResp]]
    /\ UNCHANGED <<users, messages, now, ticks, emitted,
                   retryVars, registryVars>>

\* findOne settles; then genSalt and hash, up to await newUser.save()
RegisterFindOne(r, dbOk) ==
    /\ reqs[r].kind = "register" /\ reqs[r].pc = "findOne"
    /\ reqs' = [reqs EXCEPT ![r] =
         IF ~dbOk
         THEN [@ EXCEPT !.pc = "done", !.failed = TRUE, !.resp =
                Resp(500, [error |-> "An error occurred during registration."])]
         ELSE IF FindOne(users, @.username) # 0
         THEN [@ EXCEPT !.pc = "done", !.resp =
                Resp(400, [error |-> "Username already taken."])]
         ELSE [@ EXCEPT !.pc = "save"]]
    /\ UNCHANGED <<users, messages, now, ticks, emitted,
                   retryVars, registryVars>>

\* save settles; failed records that the storage itself failed, as opposed to
\* the unique index rejecting the document
RegisterSave(r, dbOk, salt) ==
    /\ reqs[r].kind = "register" /\ reqs[r].pc = "save"
    /\ IF ~dbOk \/ DuplicateKey(users, reqs[r].username)
       THEN /\ reqs' = [reqs EXCEPT ![r] =
                 [@ EXCEPT !.pc = "done", !.failed = ~dbOk, !.resp =
                    Resp(500, [error |-> "An error occurred during registration."])]]
            /\ UNCHANGED users
       ELSE /\ users' = Append(users,
                 [id |-> Len(users) + 1, username |-> reqs[r].username,
                  password |-> BcryptHash(reqs[r].password, salt)])
            /\ reqs' = [reqs EXCEPT ![r] =
                 [@ EXCEPT !.pc = "done", !.resp =
                    Resp(201, [message |-> "User registered successfully!"])]]
    /\ UNCHANGED <<messages, now, ticks, emitted, retryVars, registryVars>>

(***************************************************************************)
(* POST /api/login                                                         *)
(***************************************************************************)
\* the handler up to await User.findOne
LoginArrive(r, username, password) ==
    /\ Arrives(r)
    /\ LET req == [kind |-> "login", username |-> username,
                   password |-> password, failed |-> FALSE, user |-> 0]
       IN  reqs' = [reqs EXCEPT ![r] =
             IF NotStr(username) \/ NotStr(password)
             THEN req @@ [pc |-> "done", resp |-> LoginRequired]
             ELSE req @@ [pc |-> "findOne", resp |-> NoResp]]
    /\ UNCHANGED <<users, messages, now, ticks, emitted,
                   retryVars, registryVars>>

\* findOne settles, up to await bcrypt.compare
LoginFindOne(r, dbOk) ==
    /\ reqs[r].kind = "login" /\ reqs[r].pc = "findOne"
    /\ reqs' = [reqs EXCEPT ![r] =
         IF ~dbOk
         THEN [@ EXCEPT !.pc = "done", !.failed = TRUE, !.resp = LoginFailed]
         ELSE IF FindOne(users, @.username) = 0
         THEN [@ EXCEPT !.pc = "done", !.resp = LoginNoUser]
         ELSE [@ EXCEPT !.pc = "compare",
                        !.user = FindOne(users, reqs[r].username)]]
    /\ UNCHANGED <<users, messages, now, ticks, emitted,
                   retryVars, registryVars>>

\* compare settles; jwt.sign and res.json({ token, username })
LoginCompare(r) ==
    /\ reqs[r].kind = "login" /\ reqs[r].pc = "compare"
    /\ LET user == users[reqs[r].user]
       IN  reqs' = [reqs EXCEPT ![r] =
             IF ~BcryptCompare(@.password, user.password)
             THEN [@ EXCEPT !.pc = "done", !.resp = LoginMismatch]
             ELSE [@ EXCEPT !.pc = "done", !.resp =
                    Resp(200, [token |-> JwtSign(user.id, user.username, now),
                               username |-> reqs[r].username])]]
    /\ UNCHANGED <<users, messages, now, ticks, emitted,
                   retryVars, registryVars>>

(***************************************************************************)
(* POST /api/submit                                                        *)
(***************************************************************************)
Uppers == <<"A", "B", "C", "D", "E", "F", "G", "H", "I", "J", "K", "L", "M",
            "N", "O", "P", "Q", "R", "S", "T", "U", "V", "W", "X", "Y", "Z">>
Lowers == <<"a", "b", "c", "d", "e", "f", "g", "h", "i", "j", "k", "l", "m",
            "n", "o", "p", "q", "r", "s", "t", "u", "v", "w", "x", "y", "z">>

\* String.prototype.toLowerCase
ToLowerCase(q) ==
    [n \in 1..Len(q) |->
       IF \E k \in 1..Len(Uppers) : Uppers[k] = q[n]
       THEN Lowers[CHOOSE k \in 1..Len(Uppers) : Uppers[k] = q[n]]
       ELSE q[n]]

\* String.prototype.startsWith
StartsWith(q, p) == Len(q) >= Len(p) /\ SubSeq(q, 1, Len(p)) = p

\* String.prototype.substring(from)
Substring(q, from) == SubSeq(q, from + 1, Len(q))

\* message.toLowerCase().startsWith('@bot ')
IsForBot(q) == StartsWith(ToLowerCase(q), <<"@", "b", "o", "t", " ">>)

\* the name of the automated author
BotName == "Bot"

\* what getBotResponse can resolve with: the apology or a reply text
BotReplies == {<<Apology>>, <<"h", "e", "l", "l", "o">>}

\* the validators of messageSchema: userId, name and message are required
ValidMessage(doc) ==
    /\ doc.userId # Null
    /\ doc.name # ""
    /\ doc.message # <<>>

\* variant: the event carries the lower-cased body
NewMessageEventLowerCased(doc, ss) ==
    [event |-> "new_message",
     payload |-> [name |-> doc.name, message |-> ToLowerCase(doc.message),
                  timestamp |-> doc.date],
     to |-> LiveSockets(ss), by |-> doc.by]
\* io.emit('new_message', { name, message, timestamp: date }) for the saved
\* document doc, with the connections ss; by is the request that saved it
NewMessageEvent(doc, ss) ==
    [event |-> "new_message",
     payload |-> [name |-> doc.name, message |-> doc.message, timestamp |-> doc.date],
     to |-> LiveSockets(ss), by |-> doc.by]

SubmitFailed == Resp(500, [error |-> "An error occurred while saving the message."])
SubmitCreated == Resp(201, [message |-> "Message submitted successfully!"])

\* the name and userId fields of a request body: absent, or given
NoOthers == [present |-> FALSE]
Others(name, userId) == [present |-> TRUE, name |-> name, userId |-> userId]

\* variant: the author is taken from the request body when it names one
MessageAuthorFromBody(user, others) ==
    IF others.present
    THEN [userId |-> others.userId, name |-> others.name]
    ELSE [userId |-> user.userId, name |-> user.username]
\* const { userId, username } = req.user; { userId, name: username, ... }
MessageAuthor(user, others) == [userId |-> user.userId, name |-> user.username]

\* auth, then the handler up to await newMessage.save(); message and others
\* are the fields of req.body
SubmitArrive(r, header, message, others) ==
    /\ Arrives(r)
    /\ LET req == [kind |-> "submit", header |-> header, message |-> message,
                   others |-> others, at |-> now, failed |-> FALSE]
           verdict == Auth(header, now)
           user == AuthToken(header)
       IN  reqs' = [reqs EXCEPT ![r] =
             IF verdict = "missing"
             THEN req @@ [pc |-> "done", resp |-> AuthMissing]
             ELSE IF verdict = "invalid"
             THEN req @@ [pc |-> "done", resp |-> AuthInvalid]
             ELSE IF Not(message)
             THEN req @@ [pc |-> "done", resp |->
                    Resp(400, [error |-> "Message is required."])]
             ELSE req @@ [pc |-> "save", resp |-> NoResp,
                    doc |-> [userId |-> MessageAuthor(user, others).userId,
                             name |-> MessageAuthor(user, others).name,
                             message |-> message.v, date |-> now, by |-> r]]]
    /\ UNCHANGED <<users, messages, now, ticks, emitted,
                   retryVars, registryVars>>

\* variant: the event is emitted before the outcome of save() is known
SubmitSaveEmitFirst(r, dbOk) ==
    /\ reqs[r].kind = "submit" /\ reqs[r].pc = "save"
    /\ emitted' = Append(emitted, NewMessageEvent(reqs[r].doc, sockets))
    /\ IF ~ValidMessage(reqs[r].doc) \/ ~dbOk
       THEN /\ reqs' = [reqs EXCEPT ![r] =
                 [@ EXCEPT !.pc = "done", !.failed = ValidMessage(reqs[r].doc),
                           !.resp = SubmitFailed]]
            /\ UNCHANGED messages
       ELSE /\ messages' = Append(messages, reqs[r].doc)
            /\ reqs' = [reqs EXCEPT ![r] =
                 IF IsForBot(reqs[r].message.v)
                 THEN [reqs[r] EXCEPT !.pc = "bot"]
                        @@ [botPrompt |-> Substring(reqs[r].message.v, 5)]
                 ELSE [@ EXCEPT !.pc = "done", !.resp = SubmitCreated]]
    /\ UNCHANGED <<users, now, ticks, retryVars, registryVars>>
\* newMessage.save() settles; io.emit; then await getBotResponse or 201.
\* save() validates the document before it reaches the storage; failed records
\* that the storage failed.  botPrompt is the argument of getBotResponse.
SubmitSave(r, dbOk) ==
    /\ reqs[r].kind = "submit" /\ reqs[r].pc = "save"
    /\ IF ~ValidMessage(reqs[r].doc) \/ ~dbOk
       THEN /\ reqs' = [reqs EXCEPT ![r] =
                 [@ EXCEPT !.pc = "done", !.failed = ValidMessage(reqs[r].doc),
                           !.resp = SubmitFailed]]
            /\ UNCHANGED <<messages, emitted>>
       ELSE /\ messages' = Append(messages, reqs[r].doc)
            /\ emitted' = Append(emitted, NewMessageEvent(reqs[r].doc, sockets))
            /\ reqs' = [reqs EXCEPT ![r] =
                 IF IsForBot(reqs[r].message.v)
                 THEN [reqs[r] EXCEPT !.pc = "bot"]
                        @@ [botPrompt |-> Substring(reqs[r].message.v, 5)]
                 ELSE [@ EXCEPT !.pc = "done", !.resp = SubmitCreated]]
    /\ UNCHANGED <<users, now, ticks, retryVars, registryVars>>

\* getBotResponse(message.substring(5)) settles, up to await botMessage.save()
SubmitBot(r, reply) ==
    /\ reqs[r].kind = "submit" /\ reqs[r].pc = "bot"
    /\ reqs' = [reqs EXCEPT ![r] =
         [@ EXCEPT !.pc = "botsave",
                   !.doc = [userId |-> Null, name |-> BotName, message |-> reply,
                            date |-> now, by |-> r]]]
    /\ UNCHANGED <<users, messages, now, ticks, emitted,
                   retryVars, registryVars>>

\* variant: when the reply cannot be saved the user's message is deleted again
SubmitBotSaveRollback(r, dbOk) ==
    /\ reqs[r].kind = "submit" /\ reqs[r].pc = "botsave"
    /\ IF ~ValidMessage(reqs[r].doc) \/ ~dbOk
       THEN /\ reqs' = [reqs EXCEPT ![r] =
                 [@ EXCEPT !.pc = "done", !.failed = ValidMessage(reqs[r].doc),
                           !.resp = SubmitFailed]]
            /\ messages' = SelectSeq(messages, LAMBDA m : m.by # r)
            /\ UNCHANGED emitted
       ELSE /\ messages' = Append(messages, reqs[r].doc)
            /\ emitted' = Append(emitted, NewMessageEvent(reqs[r].doc, sockets))
            /\ reqs' = [reqs EXCEPT ![r] =
                 [@ EXCEPT !.pc = "done", !.resp = SubmitCreated]]
    /\ UNCHANGED <<users, now, ticks, retryVars, registryVars>>
\* botMessage.save() settles; io.emit; 201
SubmitBotSave(r, dbOk) ==
    /\ reqs[r].kind = "submit" /\ reqs[r].pc = "botsave"
    /\ IF ~ValidMessage(reqs[r].doc) \/ ~dbOk
       THEN /\ reqs' = [reqs EXCEPT ![r] =
                 [@ EXCEPT !.pc = "done", !.failed = ValidMessage(reqs[r].doc),
                           !.resp = SubmitFailed]]
            /\ UNCHANGED <<messages, emitted>>
       ELSE /\ messages' = Append(messages, reqs[r].doc)
            /\ emitted' = Append(emitted, NewMessageEvent(reqs[r].doc, sockets))
            /\ reqs' = [reqs EXCEPT ![r] =
                 [@ EXCEPT !.pc = "done", !.resp = SubmitCreated]]
    /\ UNCHANGED <<users, now, ticks, retryVars, registryVars>>

(***************************************************************************)
(* GET /api/messages                                                       *)
(***************************************************************************)
\* msg => ({ name: msg.name, message: msg.message, timestamp: msg.date })
FormatMessage(msg) ==
    [name |-> msg.name, message |-> msg.message, timestamp |-> msg.date]

\* the orders sort({ date: -1 }) can return the documents ms in: every
\* arrangement with the dates never increasing (the order of documents with
\* equal dates is not determined)
SortDateDescending(ms) ==
    {o \in [1..Len(ms) -> 1..Len(ms)] :
       /\ \A a, b \in 1..Len(ms) : a # b => o[a] # o[b]
       /\ \A a, b \in 1..Len(ms) : a < b => ms[o[a]].date >= ms[o[b]].date}

ListFailed == Resp(500, [error |-> "An error occurred while retrieving messages."])

\* the handler up to await Message.find().sort({ date: -1 }); no auth
ListArrive(r) ==
    /\ Arrives(r)
    /\ reqs' = [reqs EXCEPT ![r] =
         [kind |-> "list", pc |-> "find", resp |-> NoResp, failed |-> FALSE]]
    /\ UNCHANGED <<users, messages, now, ticks, emitted,
                   retryVars, registryVars>>

\* find settles with the documents in some order o; map and res.json
ListFind(r, dbOk) ==
    /\ reqs[r].kind = "list" /\ reqs[r].pc = "find"
    /\ \E o \in SortDateDescending(messages) :
         reqs' = [reqs EXCEPT ![r] =
           IF ~dbOk
           THEN [@ EXCEPT !.pc = "done", !.failed = TRUE, !.resp = ListFailed]
           ELSE [@ EXCEPT !.pc = "done", !.resp =
                  Resp(200, [n \in 1..Len(messages) |->
                               FormatMessage(messages[o[n]])])]]
    /\ UNCHANGED <<users, messages, now, ticks, emitted,
                   retryVars, registryVars>>

(***************************************************************************)
(* What the clients send.                                                  *)
(***************************************************************************)
RegisterInputs == {<<"alice", "secret">>, <<"", "secret">>, <<"alice", "">>}
LoginInputs ==
    {<<"alice", "secret">>, <<"alice", "wrong">>, <<"bob", "secret">>, <<"alice", "">>}
Headers ==
    {NoHeader, Bearer(ForgedToken)}
      \cup {Bearer(tok) : tok \in IssuedTokens}
MessageBodies ==
    {NoField, Chars(<<>>), Chars(<<"h", "i">>),
     Chars(<<"@", "B", "o", "t", " ", "h", "i">>)}
\* the submits: any body with a token some login issued; with no token or a
\* forged one, a body without a message and a body with one
SubmitInputs ==
    {in \in Headers \X MessageBodies :
       in[1] \in {NoHeader, Bearer(ForgedToken)}
         => in[2] \in {NoField, Chars(<<"h", "i">>)}}

NextApi ==
    \/ Tick
    \/ \E r \in Reqs, in \in RegisterInputs : RegisterArrive(r, in[1], in[2])
    \/ \E r \in Reqs, dbOk \in BOOLEAN : RegisterFindOne(r, dbOk)
    \/ \E r \in Reqs, dbOk \in BOOLEAN, salt \in Salts : RegisterSave(r, dbOk, salt)
    \/ \E r \in Reqs, in \in LoginInputs : LoginArrive(r, in[1], in[2])
    \/ \E r \in Reqs, dbOk \in BOOLEAN : LoginFindOne(r, dbOk)
    \/ \E r \in Reqs : LoginCompare(r)
    \/ \E r \in Reqs, in \in SubmitInputs : SubmitArrive(r, in[1], in[2], NoOthers)
    \/ \E r \in Reqs, dbOk \in BOOLEAN : SubmitSave(r, dbOk)
    \/ \E r \in Reqs, reply \in BotReplies : SubmitBot(r, reply)
    \/ \E r \in Reqs, dbOk \in BOOLEAN : SubmitBotSave(r, dbOk)

(***************************************************************************)
(* The chat: connections, submits and listings of a registered user who    *)
(* holds a token from an earlier login.  The database and the token        *)
(* outlive the server process: the model starts with the user stored.      *)
(***************************************************************************)
\* the user document an earlier POST /api/register stored
StoredUser ==
    [id |-> 1, username |-> "alice", password |-> BcryptHash("secret", "salt1")]
\* the token an earlier POST /api/login issued for it at time 0
HeldToken == JwtSign(StoredUser.id, StoredUser.username, 0)

ChatBodies ==
    {Chars(<<"h", "i">>), Chars(<<"@", "B", "o", "t", " ", "h", "i">>)}
ChatReqs == 1..MaxChatReqs
\* the reply getBotResponse resolves with in the chat
ChatReplies == {<<"h", "e", "l", "l", "o">>}

NextChat ==
    \/ \E x \in Sockets : Connect(x)
    \/ \E x \in Sockets : Disconnect(x)
    \/ \E r \in ChatReqs, message \in ChatBodies :
         SubmitArrive(r, Bearer(HeldToken), message, NoOthers)
    \/ \E r \in ChatReqs, dbOk \in BOOLEAN : SubmitSave(r, dbOk)
    \/ \E r \in ChatReqs, reply \in ChatReplies : SubmitBot(r, reply)
    \/ \E r \in ChatReqs, dbOk \in BOOLEAN : SubmitBotSave(r, dbOk)
    \/ \E r \in ChatReqs : ListArrive(r)
    \/ \E r \in ChatReqs, dbOk \in BOOLEAN : ListFind(r, dbOk)

(***************************************************************************)
(* The history: submits and listings of that user, while time passes.      *)
(***************************************************************************)
ListBodies == {Chars(<<"h", "i">>), Chars(<<"y", "o">>)}
\* the body names no author, or names another user
ListInputs ==
    {<<message, NoOthers>> : message \in ListBodies}
      \cup {<<Chars(<<"h", "i">>), Others("bob", 2)>>}

\* a second passes
Second ==
    /\ ticks < MaxTicks
    /\ ticks' = ticks + 1
    /\ now' = now + 1
    /\ UNCHANGED <<users, messages, reqs, emitted, retryVars, registryVars>>

NextListing ==
    \/ Second
    \/ \E r \in Reqs, in \in ListInputs :
         SubmitArrive(r, Bearer(HeldToken), in[1], in[2])
    \/ \E r \in Reqs, dbOk \in BOOLEAN : SubmitSave(r, dbOk)
    \/ \E r \in Reqs : ListArrive(r)
    \/ \E r \in Reqs, dbOk \in BOOLEAN : ListFind(r, dbOk)

(***************************************************************************)
(* The specifications.  In each, the parts of the server it leaves out     *)
(* stay as they are at startup (and no call of the retry wrapper runs).    *)
(***************************************************************************)
InitSpecRetry ==
    /\ caller \in {"direct", "bot"}
    /\ prompt \in Prompts
    /\ IF caller = "bot"
       THEN retries = DefaultRetries /\ initialDelay = DefaultInitialDelay
       ELSE retries \in 0..MaxRetries /\ initialDelay \in {DefaultInitialDelay, 250}
    /\ i = 0
    /\ pc = "call"
    /\ fetched = <<>>
    /\ delays = <<>>
    /\ wrapperOut = Pending
    /\ botOut = Pending
    /\ sockets = [x \in Sockets |-> "new"]
    /\ connectedUsers = <<>>
    /\ emitted = <<>>
    /\ joinedAs = [x \in Sockets |-> NoName]
    /\ joins = 0
    /\ users = <<>>
    /\ messages = <<>>
    /\ reqs = [r \in Reqs |-> Idle]
    /\ now = 0
    /\ ticks = 0

InitServer ==
    /\ caller = "direct"
    /\ prompt = ""
    /\ retries = 0
    /\ initialDelay = DefaultInitialDelay
    /\ i = 0
    /\ pc = "idle"
    /\ fetched = <<>>
    /\ delays = <<>>
    /\ wrapperOut = Pending
    /\ botOut = Pending
    /\ sockets = [x \in Sockets |-> "new"]
    /\ connectedUsers = <<>>
    /\ emitted = <<>>
    /\ joinedAs = [x \in Sockets |-> NoName]
    /\ joins = 0
    /\ users = <<>>
    /\ messages = <<>>
    /\ reqs = [r \in Reqs |-> Idle]
    /\ now = 0
    /\ ticks = 0

InitChat ==
    /\ caller = "direct"
    /\ prompt = ""
    /\ retries = 0
    /\ initialDelay = DefaultInitialDelay
    /\ i = 0
    /\ pc = "idle"
    /\ fetched = <<>>
    /\ delays = <<>>
    /\ wrapperOut = Pending
    /\ botOut = Pending
    /\ sockets = [x \in Sockets |-> "new"]
    /\ connectedUsers = <<>>
    /\ emitted = <<>>
    /\ joinedAs = [x \in Sockets |-> NoName]
    /\ joins = 0
    /\ users = <<StoredUser>>
    /\ messages = <<>>
    /\ reqs = [r \in Reqs |-> Idle]
    /\ now = 0
    /\ ticks = 0

SpecRetry == InitSpecRetry /\ [][NextRetry]_vars

\* every fetch settles and every timer fires
SpecRetryFair == InitSpecRetry /\ [][NextRetry]_vars /\ WF_vars(NextRetry)

SpecChat == InitChat /\ [][NextChat]_vars

SpecListing == InitChat /\ [][NextListing]_vars

SpecPresence == InitServer /\ [][NextPresence]_vars

SpecApi == InitServer /\ [][NextApi]_vars

(***************************************************************************)
(* Properties of the retry wrapper and the bot responder (SpecRetry).      *)
(***************************************************************************)
Terminated == pc \in {"returned", "thrown"}
Calls == Len(fetched)

AnsweredStatus(k, st) ==
    fetched[k].kind = "response" /\ fetched[k].response.status = st
AnsweredSuccess(k) ==
    fetched[k].kind = "response" /\ fetched[k].response.status \in 200..299
AnsweredRetryable(k) ==
    /\ fetched[k].kind = "response"
    /\ (fetched[k].response.status = 429 \/ fetched[k].response.status >= 500)
AnsweredClientError(k) ==
    /\ fetched[k].kind = "response"
    /\ fetched[k].response.status \notin 200..299
    /\ fetched[k].response.status # 429
    /\ fetched[k].response.status < 500
FailedOnNetwork(k) == fetched[k].kind = "error"

\* the waits so far are initialDelay, 2*initialDelay, 4*initialDelay, ...
DoublingWaits(n) ==
    /\ Len(delays) = n
    /\ \A k \in 1..n : delays[k] = initialDelay * 2^(k - 1)

\* C1: if the endpoint answers 500 to the first N-1 calls and success to call
\* N (1 <= N <= retries), the wrapper keeps calling while it sees 500s, and
\* on the success it returns that response after exactly N calls, the wait
\* after the k-th failed call being initialDelay * 2^(k-1), never decreasing.
C1_RetryUntilSuccess ==
    /\ ((\A k \in 1..Calls : AnsweredStatus(k, 500)) /\ Calls < retries)
          => ~Terminated
    /\ \A n \in 1..retries :
         (/\ Calls >= n
          /\ \A k \in 1..(n - 1) : AnsweredStatus(k, 500)
          /\ AnsweredSuccess(n))
         => /\ Calls = n
            /\ pc = "returned"
            /\ wrapperOut = [kind |-> "return", response |-> fetched[n].response]
            /\ DoublingWaits(n - 1)
            /\ \A k \in 1..(n - 2) : delays[k] <= delays[k + 1]

C1_Witness ==
    /\ Calls = 3 /\ retries >= 3
    /\ AnsweredStatus(1, 500) /\ AnsweredStatus(2, 500) /\ AnsweredSuccess(3)
    /\ pc = "returned"
    /\ delays = <<initialDelay, 2 * initialDelay>>

\* C2: a non-success status that is neither 429 nor >= 500 on the first call
\* ends the wrapper at once: exactly 1 call, no wait, and that response is
\* returned (not thrown).
C2_ClientErrorNotRetried ==
    (Calls >= 1 /\ AnsweredClientError(1))
      => /\ Calls = 1
         /\ delays = <<>>
         /\ pc = "returned"
         /\ wrapperOut = [kind |-> "return", response |-> fetched[1].response]

C2_Witness ==
    /\ Calls = 1 /\ AnsweredStatus(1, 404)
    /\ pc = "returned" /\ wrapperOut.kind = "return"
    /\ wrapperOut.response.status = 404

\* C3: when every call fails on the network the wrapper goes on until it has
\* made exactly `retries` calls, waits initialDelay * 2^attempt after each
\* failed attempt but the last, and then throws the error.
C3_NetworkFailureBudget ==
    /\ ((\A k \in 1..Calls : FailedOnNetwork(k)) /\ Calls < retries)
          => ~Terminated
    /\ ((\A k \in 1..Calls : FailedOnNetwork(k)) /\ Terminated)
          => /\ Calls = retries
             /\ DoublingWaits(IF retries > 0 THEN retries - 1 ELSE 0)
             /\ wrapperOut.kind = "throw"
             /\ (retries > 0 => wrapperOut.error = NetworkError)

C3_Witness ==
    /\ retries = DefaultRetries /\ Calls = retries
    /\ \A k \in 1..Calls : FailedOnNetwork(k)
    /\ pc = "thrown" /\ wrapperOut.error = NetworkError
    /\ Len(delays) = retries - 1

\* C4: when every call completes with a retryable status (429 or >= 500) the
\* wrapper makes the same number of calls and the same sequence of waits as
\* when every call fails on the network (`retries` calls, a wait after each
\* failed attempt but the last), and then throws.
C4_StatusSameSchedule ==
    /\ ((\A k \in 1..Calls : AnsweredRetryable(k)) /\ Calls < retries)
          => ~Terminated
    /\ ((\A k \in 1..Calls : AnsweredRetryable(k)) /\ Terminated)
          => /\ Calls = retries
             /\ DoublingWaits(IF retries > 0 THEN retries - 1 ELSE 0)
             /\ wrapperOut.kind = "throw"

\* C5: whatever the upstream does (network failure or retryable status on
\* every attempt, a 4xx response, a success without text), a completed
\* getBotResponse has returned a non-empty string and has not thrown.
C5_BotAlwaysAnswers ==
    botOut # Pending
      => /\ botOut.kind = "return"
         /\ botOut.value.t = "string"
         /\ botOut.value.v # ""

C5_Witness ==
    /\ caller = "bot" /\ Calls = DefaultRetries
    /\ \A k \in 1..Calls : FailedOnNetwork(k)
    /\ wrapperOut.kind = "throw"
    /\ botOut = [kind |-> "return", value |-> Str(Apology)]

SucceededWithBody(b) ==
    /\ botOut # Pending
    /\ wrapperOut.kind = "return"
    /\ wrapperOut.response.status \in 200..299
    /\ wrapperOut.response.body = b

\* C6 as stated: on a success response that has the nested text field the
\* result is exactly that text; without the field it is the apology.
C6_TextOrFallback_Original ==
    /\ \A s \in Texts \cup {""} :
         SucceededWithBody(BodyWithText(s))
           => botOut = [kind |-> "return", value |-> Str(s)]
    /\ \A b \in AbsentBodies :
         SucceededWithBody(b)
           => botOut = [kind |-> "return", value |-> Str(Apology)]

\* C6 amended: on a success response whose nested text field is a non-empty
\* string the result is exactly that text; when the field is absent or is
\* the empty string the result is the apology.
C6_TextOrFallback ==
    /\ \A s \in Texts :
         SucceededWithBody(BodyWithText(s))
           => botOut = [kind |-> "return", value |-> Str(s)]
    /\ \A b \in AbsentBodies \cup {BodyWithText("")} :
         SucceededWithBody(b)
           => botOut = [kind |-> "return", value |-> Str(Apology)]

C6_Witness ==
    /\ SucceededWithBody(BodyWithText("hello"))
    /\ botOut.value = Str("hello")

(***************************************************************************)
(* Properties of the presence registry (SpecPresence).                     *)
(***************************************************************************)
\* the connections that have joined and not yet disconnected
JoinedLive == {x \in Sockets : sockets[x] = "live" /\ joinedAs[x] # NoName}

OnlineUsersEmits == {n \in 1..Len(emitted) : emitted[n].event = "online_users"}
LastOnlineUsers ==
    emitted[CHOOSE n \in OnlineUsersEmits : \A m \in OnlineUsersEmits : m <= n].payload

Occurrences(q, v) == Cardinality({n \in 1..Len(q) : q[n] = v})

\* C9: the payload of the most recent online_users broadcast holds exactly
\* the names of the connections that have joined and not yet disconnected,
\* each as many times as connections carry it; after join "A", join "B",
\* disconnect of the first it is <<"B">>.
C9_LastBroadcastIsJoinedLive ==
    OnlineUsersEmits # {}
      => /\ Len(LastOnlineUsers) = Cardinality(JoinedLive)
         /\ \A v \in Names :
              Occurrences(LastOnlineUsers, v) =
                Cardinality({x \in JoinedLive : joinedAs[x] = v})

C9_Witness ==
    /\ joinedAs[1] = "A" /\ joinedAs[2] = "B"
    /\ sockets[1] = "gone" /\ sockets[2] = "live"
    /\ Len(emitted) = 3
    /\ emitted[1].payload = <<"A">>
    /\ emitted[2].payload = <<"A", "B">>
    /\ emitted[3].payload = <<"B">>

\* C10: every key of connectedUsers is a connection that has connected and
\* not yet disconnected, so a disconnected connection has no entry left.
C10_NoEntryOutlivesConnection ==
    \A n \in 1..Len(connectedUsers) : sockets[connectedUsers[n][1]] = "live"

C10_Witness ==
    /\ \E x \in Sockets : sockets[x] = "gone" /\ joinedAs[x] # NoName
    /\ Len(connectedUsers) = 1

\* C11: a step that changes the registry (an insert on join, a removal on
\* disconnect) emits, in that same step, exactly one event: an online_users
\* broadcast to all connections that are live after the step, whose payload
\* is the complete list of the registry's values after the change; so the
\* latest broadcast never differs from the registry.
C11_MutationThenBroadcast ==
    [][connectedUsers' # connectedUsers
         => /\ Len(emitted') = Len(emitted) + 1
            /\ SubSeq(emitted', 1, Len(emitted)) = emitted
            /\ emitted'[Len(emitted')].event = "online_users"
            /\ emitted'[Len(emitted')].payload =
                 [n \in 1..Len(connectedUsers') |-> connectedUsers'[n][2]]
            /\ emitted'[Len(emitted')].to = {x \in Sockets : sockets'[x] = "live"}]_vars

C11_Witness ==
    /\ Len(connectedUsers) = 1
    /\ Len(emitted) = 3
    /\ emitted[2].payload = <<"A", "B">>
    /\ emitted[2].to = {1, 2}
    /\ emitted[3].payload = <<"B">>
    /\ emitted[3].to = {2}

\* C24: whatever mix of network failures and statuses the calls end in, the
\* wrapper makes at most `retries` calls, every wait follows a failed call
\* and the wait after the k-th call is initialDelay * 2^(k-1) whichever kind
\* of failure it was, with retries = 0 it makes no call and throws, and when
\* every call settles the wrapper eventually returns a response or throws.
C24_SharedBudgetTerminates ==
    /\ [](/\ Calls <= retries
          /\ Len(delays) <= Calls
          /\ \A k \in 1..Len(delays) :
               /\ delays[k] = initialDelay * 2^(k - 1)
               /\ FailedOnNetwork(k) \/ AnsweredRetryable(k)
          /\ (retries = 0 /\ Terminated)
               => Calls = 0 /\ wrapperOut.kind = "throw"
          /\ Terminated => wrapperOut.kind \in {"return", "throw"})
    /\ <>Terminated

C24_Witness ==
    /\ Terminated
    /\ Calls = 3
    /\ FailedOnNetwork(1) /\ AnsweredStatus(2, 503) /\ FailedOnNetwork(3)
    /\ retries = 3
    /\ delays = <<initialDelay, 2 * initialDelay>>
    /\ wrapperOut.kind = "throw"

\* the entries of the registry whose key is the connection x
EntriesOf(x) == {n \in 1..Len(connectedUsers) : connectedUsers[n][1] = x}

\* C27: the registry holds exactly one entry for every live connection that
\* has joined, with the name of its latest join, and none for a live
\* connection that has not joined, so two connections under one name have
\* an entry each; and when one of two live connections joined under the same
\* name disconnects, the broadcast of that step still lists the name.
C27_KeyedByConnection ==
    /\ [](\A x \in Sockets :
            /\ Cardinality(EntriesOf(x)) <= 1
            /\ (sockets[x] = "live" /\ joinedAs[x] = NoName) => EntriesOf(x) = {}
            /\ (sockets[x] = "live" /\ joinedAs[x] # NoName)
                 => \E n \in EntriesOf(x) : connectedUsers[n][2] = joinedAs[x])
    /\ [][\A x, y \in Sockets :
            (/\ x # y
             /\ sockets[x] = "live" /\ sockets'[x] = "gone"
             /\ sockets'[y] = "live"
             /\ joinedAs[x] # NoName /\ joinedAs[y] = joinedAs[x])
              => \E n \in 1..Len(emitted'[Len(emitted')].payload) :
                    emitted'[Len(emitted')].payload[n] = joinedAs[x]]_vars

C27_Witness ==
    /\ sockets[1] = "gone" /\ sockets[2] = "live"
    /\ joinedAs[1] = "A" /\ joinedAs[2] = "A"
    /\ connectedUsers = <<<<2, "A">>>>
    /\ Len(emitted) = 3
    /\ emitted[2].payload = <<"A", "A">>
    /\ emitted[3].payload = <<"A">>

(***************************************************************************)
(* Properties of the HTTP API (SpecApi).                                   *)
(***************************************************************************)
\* the header carries a token signed by the server that has not expired at t
CarriesValidToken(h, t) ==
    /\ h.present
    /\ h.credentials.t = "jwt"
    /\ h.credentials.sig = "JWT_SECRET"
    /\ t < h.credentials.exp

SavedBy(r) == {n \in 1..Len(messages) : messages[n].by = r}
NewMessageBy(r) ==
    {n \in 1..Len(emitted) : emitted[n].event = "new_message" /\ emitted[n].by = r}

\* C7: a submit whose Authorization header is missing, or whose token is not
\* signed by the server or has expired when the request arrives, is answered
\* 401 whatever its body is, and its handler saves no message and emits no
\* new_message event.
C7_NoTokenNoMessage ==
    \A r \in Reqs :
      (reqs[r].kind = "submit" /\ ~CarriesValidToken(reqs[r].header, reqs[r].at))
        => /\ reqs[r].pc = "done"
           /\ reqs[r].resp.status = 401
           /\ SavedBy(r) = {}
           /\ NewMessageBy(r) = {}

C7_Witness ==
    \E r \in Reqs :
      /\ reqs[r].kind = "submit"
      /\ reqs[r].header.present
      /\ reqs[r].header.credentials.sig = "JWT_SECRET"
      /\ reqs[r].header.credentials.exp <= reqs[r].at
      /\ reqs[r].message = Chars(<<"h", "i">>)
      /\ reqs[r].resp.status = 401

RegisteredWith(u, p) ==
    \E q \in Reqs :
      /\ reqs[q].kind = "register" /\ reqs[q].resp.status = 201
      /\ reqs[q].username = u /\ reqs[q].password = p
Registered(u) == \E p \in Passwords : RegisteredWith(u, p)

\* a login with both fields given that was answered without a storage failure
LoginAnswered(r) ==
    /\ reqs[r].kind = "login" /\ reqs[r].pc = "done" /\ ~reqs[r].failed
    /\ reqs[r].username # "" /\ reqs[r].password # ""
WrongPassword(r) ==
    /\ Registered(reqs[r].username)
    /\ ~RegisteredWith(reqs[r].username, reqs[r].password)
UnknownUser(r) == ~Registered(reqs[r].username)

\* C8: a login with a registered username and a wrong password and a login
\* with an unregistered username are answered alike: status 400 and the same
\* body.
C8_LoginAntiEnumeration ==
    \A r1, r2 \in Reqs :
      (LoginAnswered(r1) /\ LoginAnswered(r2) /\ WrongPassword(r1) /\ UnknownUser(r2))
        => /\ reqs[r1].resp.status = 400
           /\ reqs[r2].resp.status = 400
           /\ reqs[r1].resp = reqs[r2].resp

C8_Witness ==
    \E r1, r2 \in Reqs :
      /\ LoginAnswered(r1) /\ LoginAnswered(r2)
      /\ reqs[r1].username = "alice" /\ reqs[r1].password = "wrong"
      /\ reqs[r1].user # 0
      /\ reqs[r2].username = "bob" /\ reqs[r2].password = "secret"
      /\ RegisteredWith("alice", "secret")
      /\ reqs[r1].resp = reqs[r2].resp

(***************************************************************************)
(* Properties of the chat (SpecChat).                                      *)
(***************************************************************************)
\* the new_message events so far, in the order they were emitted
NewMessageEmits == SelectSeq(emitted, LAMBDA e : e.event = "new_message")

\* the request r went through the bot branch of the submit handler
CalledBot(r) == "botPrompt" \in DOMAIN reqs[r]

\* C12: the new_message events and the persisted messages correspond one to
\* one, in order: the k-th event carries the author name, the body and the
\* creation date of the k-th persisted message and was emitted in the step
\* that persisted it, to exactly the connections live at that moment.  (No
\* bot-authored message is ever persisted, so the events are all of users'
\* messages.)
C12_OneEventPerPersistedMessage ==
    /\ [](/\ Len(NewMessageEmits) = Len(messages)
          /\ \A k \in 1..Len(messages) :
               /\ NewMessageEmits[k].by = messages[k].by
               /\ NewMessageEmits[k].payload =
                    [name |-> messages[k].name, message |-> messages[k].message,
                     timestamp |-> messages[k].date])
    /\ [][(/\ Len(emitted') > Len(emitted)
            /\ emitted'[Len(emitted')].event = "new_message")
           => /\ Len(emitted') = Len(emitted) + 1
              /\ Len(messages') = Len(messages) + 1
              /\ emitted'[Len(emitted')].to = {x \in Sockets : sockets[x] = "live"}
              /\ sockets' = sockets]_vars

C12_Witness ==
    /\ Len(messages) = 2
    /\ Len(NewMessageEmits) = 2
    /\ NewMessageEmits[1].to = {1, 2}
    /\ NewMessageEmits[2].to = {2}
    /\ \E r \in ChatReqs :
         /\ CalledBot(r)
         /\ reqs[r].pc = "done"
         /\ NewMessageEmits[1].by = r
         /\ NewMessageEmits[1].payload.message = <<"@", "B", "o", "t", " ", "h", "i">>

\* the message of the user that the submit r carried is stored and announced
UserMessageKept(r) ==
    /\ \E n \in 1..Len(messages) :
         /\ messages[n].by = r
         /\ messages[n].name # "Bot"
         /\ messages[n].message = reqs[r].message.v
    /\ \E n \in 1..Len(NewMessageEmits) :
         /\ NewMessageEmits[n].by = r
         /\ NewMessageEmits[n].payload.name # "Bot"
         /\ NewMessageEmits[n].payload.message = reqs[r].message.v

\* no message authored by 'Bot' is stored for the submit r
NoBotReplyStored(r) ==
    \A n \in 1..Len(messages) : ~(messages[n].by = r /\ messages[n].name = "Bot")

\* C26: once a submit has called the bot responder, the user's message is
\* stored and its new_message event emitted; and when the submit has ended
\* without its bot reply stored, it is answered 500 and the user's message
\* and event are still there: stored messages and emitted events are never
\* taken back.
C26_NoRollbackAfterBotFailure ==
    /\ [](\A r \in Reqs :
            (reqs[r].kind = "submit" /\ CalledBot(r))
              => /\ UserMessageKept(r)
                 /\ (reqs[r].pc = "done" /\ NoBotReplyStored(r))
                      => reqs[r].resp.status = 500)
    /\ [][/\ Len(messages') >= Len(messages)
          /\ SubSeq(messages', 1, Len(messages)) = messages
          /\ Len(emitted') >= Len(emitted)
          /\ SubSeq(emitted', 1, Len(emitted)) = emitted]_vars

C26_Witness ==
    \E r \in ChatReqs :
      /\ reqs[r].kind = "submit" /\ CalledBot(r)
      /\ reqs[r].pc = "done" /\ reqs[r].resp.status = 500
      /\ reqs[r].doc.name = "Bot"
      /\ NoBotReplyStored(r)
      /\ UserMessageKept(r)
      /\ Len(messages) = 1 /\ Len(NewMessageEmits) = 1
      /\ NewMessageEmits[1].to = {1}

\* C22: a connection receives no event emitted before it connected: no
\* event so far was sent to a connection that has not connected yet, the
\* step in which a client connects emits nothing, and the events already
\* emitted keep their recipients.
C22_NoReplay ==
    /\ [](\A x \in Sockets :
            sockets[x] = "new"
              => \A n \in 1..Len(emitted) : x \notin emitted[n].to)
    /\ [][/\ (\E x \in Sockets : sockets[x] = "new" /\ sockets'[x] = "live")
               => emitted' = emitted
          /\ SubSeq(emitted', 1, Len(emitted)) = emitted]_vars

C22_Witness ==
    /\ sockets[1] = "live" /\ sockets[2] = "live"
    /\ Len(NewMessageEmits) = 2
    /\ NewMessageEmits[1].to = {1}
    /\ NewMessageEmits[2].to = {1, 2}
    /\ Len(emitted) = 2

\* the submit r is waiting for the bot responder
AwaitingBot(r) == reqs[r].kind = "submit" /\ reqs[r].pc = "bot"

\* the next request, if one can still come
NextToArrive(q) ==
    /\ reqs[q].kind = "none"
    /\ \A p \in ChatReqs : p < q => reqs[p].kind # "none"

\* C23: while a submit waits for the bot responder it is the only thing
\* held up: it has no answer yet, and every other request waiting for the
\* storage can take its next step, a new submit or listing can arrive, a
\* live connection can join or disconnect and a new one can connect; and whatever
\* happens meanwhile, short of its own call settling, leaves that submit as
\* it is, while a storage step of another request brings that one to its
\* answer or to its own call of the bot responder.
C23_RequestIsolation ==
    /\ [](\A r \in ChatReqs :
            AwaitingBot(r)
              => /\ reqs[r].resp = NoResp
                 /\ \A q \in ChatReqs \ {r} :
                      /\ reqs[q].pc = "save" => ENABLED SubmitSave(q, TRUE)
                      /\ reqs[q].pc = "botsave" => ENABLED SubmitBotSave(q, TRUE)
                      /\ reqs[q].pc = "find" => ENABLED ListFind(q, TRUE)
                      /\ NextToArrive(q)
                           => /\ ENABLED ListArrive(q)
                              /\ ENABLED SubmitArrive(q, Bearer(HeldToken),
                                                      Chars(<<"h", "i">>), NoOthers)
                 /\ \A x \in Sockets :
                      /\ sockets[x] = "live"
                           => /\ ENABLED Disconnect(x)
                              /\ \A username \in Names : ENABLED Join(x, username)
                      /\ (sockets[x] = "new"
                           /\ \A y \in Sockets : y < x => sockets[y] # "new")
                           => ENABLED Connect(x))
    /\ [][\A r \in ChatReqs :
              AwaitingBot(r)
                => /\ reqs'[r] = reqs[r] \/ reqs'[r].pc = "botsave"
                   /\ \A q \in ChatReqs \ {r} :
                        (reqs[q].pc \in {"save", "botsave", "find"}
                         /\ reqs'[q] # reqs[q])
                          => reqs'[q].pc = "done" \/ AwaitingBot(q)']_vars

C23_Witness ==
    /\ AwaitingBot(1)
    /\ reqs[2].kind = "list" /\ reqs[2].resp.status = 200
    /\ Len(reqs[2].resp.body) = 1
    /\ sockets[1] = "gone" /\ sockets[2] = "live"
    /\ NewMessageEmits[1].to = {1}

\* C13: of two submits one client sends one after the other, every
\* new_message event of the first is emitted before every new_message event
\* of the second.
C13_EventsInSubmissionOrder ==
    \A p, q \in 1..Len(NewMessageEmits) :
       NewMessageEmits[p].by < NewMessageEmits[q].by => p < q

(***************************************************************************)
(* Properties of the history (SpecListing).                                *)
(***************************************************************************)
\* the listing r is answered in this step with the list
ListAnswered(r) ==
    /\ reqs[r].kind = "list" /\ reqs[r].pc = "find"
    /\ reqs'[r].pc = "done" /\ reqs'[r].resp.status = 200

\* the persisted messages ms from the last submitted to the first submitted
\* (requests are numbered in the order they arrive)
ReverseSubmissionOrder(ms) ==
    LET o == CHOOSE f \in [1..Len(ms) -> 1..Len(ms)] :
                 \A a, b \in 1..Len(ms) : a < b => ms[f[a]].by > ms[f[b]].by
    IN  [n \in 1..Len(ms) |-> ms[o[n]]]

\* C14: a listing answers with every persisted message exactly once, each as
\* { name, message, timestamp } with the timestamp its creation date, in
\* reverse submission order (m1 then m2 lists [m2, m1]).
C14_ListsNewestFirst ==
    [][\A r \in Reqs :
         ListAnswered(r)
           => reqs'[r].resp.body =
                [n \in 1..Len(messages) |->
                   [name |-> ReverseSubmissionOrder(messages)[n].name,
                    message |-> ReverseSubmissionOrder(messages)[n].message,
                    timestamp |-> ReverseSubmissionOrder(messages)[n].date]]]_vars

\* C25: every message a submit stored, and the new_message event announcing
\* it, carries as author the username and the user id of the verified token
\* of that submit, whatever name and userId fields the request body had.
C25_AuthorFromToken ==
    \A r \in Reqs :
      reqs[r].kind = "submit"
        => /\ \A n \in SavedBy(r) :
                (messages[n].userId = Null /\ messages[n].name = "Bot")
                  \/ /\ messages[n].name = reqs[r].header.credentials.username
                     /\ messages[n].userId = reqs[r].header.credentials.userId
           /\ \A n \in NewMessageBy(r) :
                emitted[n].payload.name = "Bot"
                  \/ emitted[n].payload.name = reqs[r].header.credentials.username

C25_Witness ==
    \E r \in Reqs :
      /\ reqs[r].kind = "submit"
      /\ reqs[r].others = Others("bob", 2)
      /\ reqs[r].resp.status = 201
      /\ \E n \in SavedBy(r) : messages[n].name = "alice" /\ messages[n].userId = 1
      /\ \E n \in NewMessageBy(r) : emitted[n].payload.name = "alice"

\* C21: a submit whose save of the user's message failed in the storage is
\* answered 500 with the generic error body, none of its messages is stored
\* and no new_message event of it is emitted; a listing whose read failed is
\* answered 500 with its generic error body.  The handler ends with that
\* answer, and the other requests go on being handled.
C21_StorageFailureIs500 ==
    \A r \in Reqs :
      /\ (reqs[r].kind = "submit" /\ reqs[r].failed)
           => /\ reqs[r].pc = "done"
              /\ reqs[r].resp.status = 500
              /\ reqs[r].resp.body =
                   [error |-> "An error occurred while saving the message."]
              /\ SavedBy(r) = {}
              /\ NewMessageBy(r) = {}
      /\ (reqs[r].kind = "list" /\ reqs[r].failed)
           => /\ reqs[r].pc = "done"
              /\ reqs[r].resp.status = 500
              /\ reqs[r].resp.body =
                   [error |-> "An error occurred while retrieving messages."]

C21_Witness ==
    /\ reqs[1].kind = "submit" /\ reqs[1].failed /\ reqs[1].resp.status = 500
    /\ reqs[2].kind = "list" /\ reqs[2].failed /\ reqs[2].resp.status = 500
    /\ reqs[3].kind = "submit" /\ reqs[3].resp.status = 201
    /\ Len(messages) = 1
    /\ Len(emitted) = 1

(***************************************************************************)
(* Further properties of the HTTP API (SpecApi).                           *)
(***************************************************************************)
\* a submit with a valid token and a non-empty body that has been answered,
\* the storage never having failed
SubmitAnswered(r) ==
    /\ reqs[r].kind = "submit" /\ reqs[r].pc = "done" /\ ~reqs[r].failed
    /\ CarriesValidToken(reqs[r].header, reqs[r].at)
    /\ reqs[r].message.t = "string" /\ reqs[r].message.v # <<>>

\* a message by the author name with the body text, saved by r and announced
\* by a new_message event
PersistedAndBroadcast(r, name, text) ==
    /\ \E n \in SavedBy(r) : messages[n].name = name /\ messages[n].message = text
    /\ \E n \in NewMessageBy(r) :
         emitted[n].payload.name = name /\ emitted[n].payload.message = text

\* C15: an answered submit with a valid token and a non-empty body is
\* answered 201 with the user's message persisted and broadcast; when the
\* body begins with '@bot ' (in any case) the bot responder was called with
\* the body minus the prefix and a reply authored by 'Bot' is persisted and
\* broadcast too; otherwise the bot responder was not called.
C15_BotReplyPersisted ==
    \A r \in Reqs :
      SubmitAnswered(r)
        => /\ reqs[r].resp.status = 201
           /\ PersistedAndBroadcast(r, reqs[r].header.credentials.username,
                                    reqs[r].message.v)
           /\ IF StartsWith(ToLowerCase(reqs[r].message.v), <<"@", "b", "o", "t", " ">>)
              THEN /\ CalledBot(r)
                   /\ reqs[r].botPrompt = SubSeq(reqs[r].message.v, 6,
                                                 Len(reqs[r].message.v))
                   /\ \E text \in BotReplies : PersistedAndBroadcast(r, "Bot", text)
              ELSE ~CalledBot(r)

\* the author of the stored message m is a stored user
AuthorIsUser(m) ==
    \E n \in 1..Len(users) :
       users[n].id = m.userId /\ users[n].username = m.name
\* the author of the stored message m is the automated responder
AuthorIsBot(m) == m.userId = Null /\ m.name = BotName

\* C16: every stored message has a non-empty body and an author that is
\* either a stored user (by id and name) or the automated responder.
C16_StoredMessagesWellFormed ==
    \A n \in 1..Len(messages) :
       /\ messages[n].message # <<>>
       /\ AuthorIsUser(messages[n]) \/ AuthorIsBot(messages[n])

C16_Witness ==
    /\ Len(messages) = 1
    /\ AuthorIsUser(messages[1])
    /\ messages[1].message = <<"@", "B", "o", "t", " ", "h", "i">>
    /\ \E r \in Reqs : CalledBot(r) /\ reqs[r].pc = "done"

\* the username is that of a stored user
Taken(username) == \E n \in 1..Len(users) : users[n].username = username

\* C17: a register request is answered 201 only in a step that stores
\* exactly one new user, with the request's username (not stored before) and
\* a hash of its password, and every other answer leaves the user store as
\* it is; a request without a username or without a password is answered
\* 400 on arrival, and a request whose lookup finds its username stored is
\* answered 400 (unless the storage fails), both with the store unchanged.
C17_RegisterAnswers ==
    [][\A r \in Reqs :
         reqs'[r].kind = "register"
           => /\ (reqs[r].pc # "done" /\ reqs'[r].pc = "done")
                   => IF reqs'[r].resp.status = 201
                      THEN /\ ~Taken(reqs'[r].username)
                           /\ \E salt \in Salts :
                                users' = Append(users,
                                  [id |-> Len(users) + 1,
                                   username |-> reqs'[r].username,
                                   password |-> BcryptHash(reqs'[r].password, salt)])
                      ELSE users' = users
              /\ (reqs[r].kind = "none"
                    /\ (reqs'[r].username = "" \/ reqs'[r].password = ""))
                   => /\ reqs'[r].pc = "done"
                      /\ reqs'[r].resp.status = 400
              /\ (reqs[r].pc = "findOne" /\ reqs'[r].pc # "findOne"
                    /\ Taken(reqs[r].username) /\ ~reqs'[r].failed)
                   => /\ reqs'[r].pc = "done"
                      /\ reqs'[r].resp.status = 400]_vars

C17_Witness ==
    /\ Len(users) = 1
    /\ users[1].username = "alice"
    /\ users[1].password = BcryptHash("secret", "salt1")
    /\ \E r1, r2, r3 \in Reqs :
         /\ reqs[r1].kind = "register" /\ reqs[r1].resp.status = 201
         /\ reqs[r2].kind = "register" /\ reqs[r2].username = "alice"
         /\ reqs[r2].resp = Resp(400, [error |-> "Username already taken."])
         /\ reqs[r3].kind = "register" /\ reqs[r3].password = ""
         /\ reqs[r3].resp.status = 400

\* C18: at most one stored user has any given username, whatever the
\* interleaving of the register requests, and a stored user is never changed
\* or deleted.
C18_UsernamesUnique ==
    /\ [](\A n, m \in 1..Len(users) :
            users[n].username = users[m].username => n = m)
    /\ [][/\ Len(users') >= Len(users)
          /\ \A n \in 1..Len(users) : users'[n] = users[n]]_vars

\* two registers of one username were both past their lookup before either
\* was saved: one stored the user, the unique index rejected the other
C18_Witness ==
    /\ Len(users) = 1
    /\ \E r1, r2 \in Reqs :
         /\ r1 # r2
         /\ reqs[r1].kind = "register" /\ reqs[r2].kind = "register"
         /\ reqs[r1].username = reqs[r2].username
         /\ reqs[r1].resp.status = 201
         /\ reqs[r2].resp.status = 500 /\ ~reqs[r2].failed

\* the token is signed by the server for a stored user
BoundToUser(token) ==
    /\ token.t = "jwt" /\ token.sig = "JWT_SECRET"
    /\ \E n \in 1..Len(users) :
         users[n].id = token.userId /\ users[n].username = token.username

\* C19: a successful login answers with a token signed by the server for
\* the user who logged in, expiring 3600 seconds after the login; a submit
\* is answered 401 exactly when its header carries no token signed by the
\* server that is still unexpired when the request arrives: a submit with an
\* issued token is let through before the expiry and answered 401 from the
\* expiry on, whatever else the server has stored.
C19_TokenLifetime ==
    /\ [](\A r \in Reqs :
            /\ (reqs[r].kind = "login" /\ reqs[r].resp.status = 200)
                 => /\ BoundToUser(reqs[r].resp.body.token)
                    /\ reqs[r].resp.body.token.username = reqs[r].username
                    /\ reqs[r].resp.body.token.exp =
                         reqs[r].resp.body.token.iat + 3600
            /\ reqs[r].kind = "submit"
                 => /\ reqs[r].resp.status = 401
                         <=> ~(/\ reqs[r].header.present
                               /\ reqs[r].header.credentials.sig = "JWT_SECRET"
                               /\ reqs[r].at < reqs[r].header.credentials.exp)
                    /\ reqs[r].resp.status = 401 => reqs[r].pc = "done")
    /\ [][\A r \in Reqs :
            (reqs'[r].kind = "login" /\ reqs[r].resp.status # 200
               /\ reqs'[r].resp.status = 200)
              => reqs'[r].resp.body.token.iat = now]_vars

C19_Witness ==
    \E q, r \in Reqs :
      /\ reqs[q].kind = "login" /\ reqs[q].resp.status = 200
      /\ reqs[q].resp.body.token.exp = 2 * 3600
      /\ reqs[r].kind = "submit"
      /\ reqs[r].header = Bearer(reqs[q].resp.body.token)
      /\ reqs[r].at = 3600
      /\ reqs[r].resp.status = 201

\* C20: a submit with a valid token whose body has no message, or the empty
\* string as message, is answered 400 on arrival; no message of it is saved,
\* no new_message event of it is emitted and the bot responder is not called.
C20_EmptyMessageRejected ==
    \A r \in Reqs :
      (/\ reqs[r].kind = "submit"
       /\ CarriesValidToken(reqs[r].header, reqs[r].at)
       /\ (reqs[r].message.t = "undefined" \/ reqs[r].message = Chars(<<>>)))
        => /\ reqs[r].pc = "done"
           /\ reqs[r].resp = Resp(400, [error |-> "Message is required."])
           /\ SavedBy(r) = {}
           /\ NewMessageBy(r) = {}
           /\ ~CalledBot(r)

C20_Witness ==
    \E r \in Reqs :
      /\ reqs[r].kind = "submit"
      /\ CarriesValidToken(reqs[r].header, reqs[r].at)
      /\ reqs[r].message = Chars(<<>>)
      /\ reqs[r].resp.status = 400
      /\ messages = <<>>
====
